---- MODULE Spec2Model ----
(***************************************************************************)
(* Chain construction on a chip (chip_class.py) and the chain extraction  *)
(* of the solution validator (solution_metrics.py).                        *)
(*                                                                         *)
(* A Chip is built from an input file (test), then exactly one builder     *)
(* runs on it: find_paths_fast_version or find_paths_slow_version.         *)
(* Python lists are sequences (index j of the code is index j+1 here);     *)
(* partial_distance and selection are functions on 0..len-1.               *)
(***************************************************************************)
EXTENDS Integers, Sequences, FiniteSets, TLC

\* ------------------------------------------------------------------ bounds
\* Inputs of the fast builder: pins on the levels y = 0..LastLevel,
\* PinsPerLevel of them on each, plus one more pin at (0..MaxX, -1..MaxExtraY).
LastLevel == 32
PinsPerLevel == 2
MaxX == 2
MaxExtraY == 36
\* The drivers are listed in the file in one of the orders 0..MaxOrder.
MaxOrder == 2
\* Inputs of the slow builder: 1..MaxK driver pairs, 0..MaxPins free pins on
\* the grid (0..MaxCoord) x (0..1).
MaxK == 2
MaxPins == 3
MaxCoord == 2
\* Link maps of the validator: up to MaxLinks links over NumInV input
\* drivers, NumOutV output drivers and NumFreeV free pins; a chain is
\* followed for MaxChainLen pins.
NumInV == 3
NumOutV == 2
NumFreeV == 2
MaxLinks == 4
MaxChainLen == 6

\* ------------------------------------------------------- program constants
\* partial_distance = [0]*16 and "for i in range(16)".
NumChains == 16
\* "for i in range(32)": the number of y intervals.
NumIntervals == 32

\* "int(pin.split("_")[1]) <= 15": the last index of an input driver.
LastInputIndex == 15
\* "2 <= len(inputs) <= 16"
MinDrivers == 2
MaxDrivers == 16

\* --------------------------------------------------------------- variables
VARIABLES
    test,               \* the input file: [plus, minus, pins], in file order
    method,             \* "fast" | "slow": the builder the caller runs
    pc,                 \* "start" | "fast_chains" | "slow_loop" | "done" | "crashed"
    driver_pins_plus,   \* Chip.driver_pins_plus
    driver_pins_minus,  \* Chip.driver_pins_minus
    not_connected,      \* Chip.not_connected
    _min_y,             \* Chip._min_y
    _max_y,             \* Chip._max_y
    graph,              \* Chip.graph
    global_distance,    \* local of the running builder
    partial_distance,   \* local of the running builder
    selection,          \* local of find_paths_fast_version
    ci,                 \* loop index i of "for i in range(16)" (fast builder)
    ret,                \* what the builder returned, or None
    prev_ends           \* chain endpoints of an earlier run on the same file

chipvars == <<test, method, pc, driver_pins_plus, driver_pins_minus,
              not_connected, _min_y, _max_y, graph, global_distance,
              partial_distance, selection, ci, ret, prev_ends>>

\* solution_metrics.extract_chains(links, pins_index)
VARIABLES
    links,              \* the dict conn_in name -> conn_out name: its items,
                        \* in insertion order (the order of the output file)
    v_pc,               \* "idle" | "start" | "walk" | "returned" | "raised"
    v_error,            \* the exception raised, or "none"
    inputs,             \* local inputs
    outputs,            \* local outputs
    chains,             \* local chains
    chain,              \* local chain
    next_pin,           \* local next_pin
    v_i                 \* position of the "for i in inputs" loop

valvars == <<links, v_pc, v_error, inputs, outputs, chains, chain, next_pin, v_i>>

vars == <<chipvars, valvars>>

None == [none |-> TRUE]

\* ------------------------------------------------------------- data model
Abs(n) == IF n < 0 THEN -n ELSE n

\* class Pin
Pin(name, x, y) == [name |-> name, x |-> x, y |-> y]

\* Edge with the distance taken without the absolute values.
Edge_signed(conn_in, conn_out, i) ==
    [conn_in |-> conn_in, conn_out |-> conn_out,
     dist |-> (conn_in.x - conn_out.x) + (conn_in.y - conn_out.y),
     i |-> i]

\* class Edge: dist is the Manhattan distance, i the chain tag (default 0).
Edge(conn_in, conn_out, i) ==
    [conn_in |-> conn_in, conn_out |-> conn_out,
     dist |-> Abs(conn_in.x - conn_out.x) + Abs(conn_in.y - conn_out.y),
     i |-> i]

obx(p) == p.x
oby(p) == p.y

\* list.sort(key=...), with keys[j] the key of s[j]: Python's sort is stable.
\* The element at index j goes to the position given by the number of
\* elements that precede it in the stable order.
SortedByKeys(s, keys) ==
    LET rank(j) == 1 + Cardinality({m \in 1..Len(s) :
                        \/ keys[m] < keys[j]
                        \/ keys[m] = keys[j] /\ m < j})
    IN  [r \in 1..Len(s) |-> s[CHOOSE j \in 1..Len(s) : rank(j) = r]]

\* s.sort(key=oby) and s.sort(key=obx)
SortedByY(s) == SortedByKeys(s, [j \in 1..Len(s) |-> oby(s[j])])
SortedByX(s) == SortedByKeys(s, [j \in 1..Len(s) |-> obx(s[j])])

\* sum(sample) for a function on 0..n-1
RECURSIVE SumTo(_, _)
SumTo(f, n) == IF n = 0 THEN 0 ELSE f[n - 1] + SumTo(f, n - 1)

\* ------------------------------------------------------------ Chip._read
\* The running minimum / maximum of the free pins' y, with -1 as "not set".
RECURSIVE ReadMinY(_, _, _)
ReadMinY(pins, j, mn) ==
    IF j > Len(pins) THEN mn
    ELSE IF pins[j].y < mn \/ mn = -1
         THEN ReadMinY(pins, j + 1, pins[j].y)
         ELSE ReadMinY(pins, j + 1, mn)

RECURSIVE ReadMaxY(_, _, _)
ReadMaxY(pins, j, mx) ==
    IF j > Len(pins) THEN mx
    ELSE IF pins[j].y > mx \/ mx = -1
         THEN ReadMaxY(pins, j + 1, pins[j].y)
         ELSE ReadMaxY(pins, j + 1, mx)

\* Chip.__init__: self._intervals[i] = y_0 + i*(ymax-y_0)/32, then
\* _intervals[0] = y_0 - 1. The values are floats; division by 32 is exact
\* in binary floating point, so each interval bound is kept here as the
\* integer 32 * _intervals[i].
_intervals32(i) ==
    IF i = 0 THEN NumIntervals * (_min_y - 1)
    ELSE NumIntervals * _min_y + i * (_max_y - _min_y)

\* "node.y > self._intervals[i] and self._intervals[i+1] >= node.y"
InInterval(node, i) ==
    /\ NumIntervals * node.y > _intervals32(i)
    /\ _intervals32(i + 1) >= NumIntervals * node.y

\* ------------------------------------------------------ Chip._statistics
\* mean = sum(sample)/len(sample), kept as the fraction num/den;
\* standard_dev = sqrt(sum((x-mean)**2)/(len-1)), kept as the fraction under
\* the square root: sum((len*x - sum)**2) / (len**2 * (len-1)).
RECURSIVE SumSqDev(_, _, _, _)
SumSqDev(f, n, len, s) ==
    IF n = 0 THEN 0
    ELSE (len * f[n - 1] - s) * (len * f[n - 1] - s) + SumSqDev(f, n - 1, len, s)

_statistics(sample) ==
    LET len == Cardinality(DOMAIN sample)
        s == SumTo(sample, len)
    IN  [standard_dev |-> [sqrt_num |-> SumSqDev(sample, len, len, s),
                           sqrt_den |-> len * len * (len - 1)],
         mean |-> [num |-> s, den |-> len]]

\* The tuple a builder returns: (global_distance, standard_dev, mean).
Returned(gd, pd) ==
    LET st == _statistics(pd)
    IN  [global_distance |-> gd, standard_dev |-> st.standard_dev, mean |-> st.mean]

\* ------------------------------------------------------- Chip._add_edge
\* st = [graph, global_distance, partial_distance]. The edge is built as
\* Edge(a, b), so its tag is the default 0.
_add_edge(st, a, b, i) ==
    LET e == Edge(a, b, 0)
    IN  [graph |-> Append(st.graph, e),
         global_distance |-> st.global_distance + e.dist,
         partial_distance |-> [st.partial_distance EXCEPT ![i] = @ + e.dist]]

\* _add_edge over a list of (a, b) pairs, in order.
RECURSIVE AddEdges(_, _, _, _)
AddEdges(st, pairs, j, i) ==
    IF j > Len(pairs) THEN st
    ELSE AddEdges(_add_edge(st, pairs[j][1], pairs[j][2], i), pairs, j + 1, i)

\* The validator is not running.
ValidatorIdle ==
    /\ links = <<>> /\ v_pc = "idle" /\ v_error = "none"
    /\ inputs = <<>> /\ outputs = <<>> /\ chains = <<>> /\ chain = <<>>
    /\ next_pin = None /\ v_i = 0

\* --------------------------------------------------------- Chip.__init__
\* The state of a Chip just built from file t, before a builder runs.
ChipInit(t) ==
    /\ test = t
    /\ driver_pins_plus = t.plus
    /\ driver_pins_minus = t.minus
    /\ not_connected = t.pins
    /\ _min_y = ReadMinY(t.pins, 1, -1)
    /\ _max_y = ReadMaxY(t.pins, 1, -1)
    /\ graph = <<>>
    /\ global_distance = 0
    /\ partial_distance = [i \in 0..(NumChains - 1) |-> 0]
    /\ selection = [i \in 0..(NumIntervals - 1) |-> <<>>]
    /\ ci = 0
    /\ ret = None
    /\ pc = "start"
    /\ ValidatorIdle

\* ------------------------------------------- Chip.find_paths_fast_version
\* Lines 147-160: reset the totals, sort both driver lists by y, put every
\* free pin in the intervals that hold its y, sort each interval by x.
FastSetup ==
    /\ UNCHANGED valvars
    /\ pc = "start" /\ method = "fast"
    /\ global_distance' = 0
    /\ partial_distance' = [i \in 0..(NumChains - 1) |-> 0]
    /\ driver_pins_plus' = SortedByY(driver_pins_plus)
    /\ driver_pins_minus' = SortedByY(driver_pins_minus)
    /\ selection' = [i \in 0..(NumIntervals - 1) |->
                        SortedByX(SelectSeq(not_connected,
                                            LAMBDA node : InInterval(node, i)))]
    /\ ci' = 0
    /\ pc' = "fast_chains"
    /\ UNCHANGED <<test, method, not_connected, _min_y, _max_y, graph, ret, prev_ends>>

\* The (a, b) pairs of lines 164-167: driver -> act_sel[0], then act_sel in
\* ascending x.
ChainInputSide(plus, act_sel, i) ==
    <<<<plus[i + 1], act_sel[1]>>>> \o
    [j \in 1..(Len(act_sel) - 1) |-> <<act_sel[j], act_sel[j + 1]>>]

\* The (a, b) pairs of lines 169-172: the cross-over edge, then next_sel
\* from its largest x down.
ChainOutputSide(act_sel, next_sel) ==
    <<<<act_sel[Len(act_sel)], next_sel[Len(next_sel)]>>>> \o
    [j \in 1..(Len(next_sel) - 1) |-> <<next_sel[j + 1], next_sel[j]>>]

\* One iteration of "for i in range(16)" (lines 162-173). An index past the
\* end of a list (a missing driver, act_sel[0] or next_sel[-1] of an empty
\* interval) raises IndexError after the edges added so far.
FastChain ==
    /\ UNCHANGED valvars
    /\ pc = "fast_chains" /\ ci < NumChains
    /\ LET act_sel == selection[ci]
           next_sel == selection[NumChains + ci]
           st0 == [graph |-> graph, global_distance |-> global_distance,
                   partial_distance |-> partial_distance]
           crash1 == ci >= Len(driver_pins_plus) \/ Len(act_sel) = 0
           st1 == AddEdges(st0, ChainInputSide(driver_pins_plus, act_sel, ci), 1, ci)
           crash2 == Len(next_sel) = 0
           st2 == AddEdges(st1, ChainOutputSide(act_sel, next_sel), 1, ci)
           crash3 == ci >= Len(driver_pins_minus)
           st3 == _add_edge(st2, next_sel[1], driver_pins_minus[ci + 1], ci)
           crashed == crash1 \/ crash2 \/ crash3
           st == IF crash1 THEN st0 ELSE IF crash2 THEN st1
                 ELSE IF crash3 THEN st2 ELSE st3
       IN  /\ graph' = st.graph
           /\ global_distance' = st.global_distance
           /\ partial_distance' = st.partial_distance
           /\ pc' = IF crashed THEN "crashed" ELSE "fast_chains"
           /\ ci' = IF crashed THEN ci ELSE ci + 1
    /\ UNCHANGED <<test, method, driver_pins_plus, driver_pins_minus,
                   not_connected, _min_y, _max_y, selection, ret, prev_ends>>

\* Lines 175-176.
FastReturn ==
    /\ UNCHANGED valvars
    /\ pc = "fast_chains" /\ ci = NumChains
    /\ ret' = Returned(global_distance, partial_distance)
    /\ pc' = "done"
    /\ UNCHANGED <<test, method, driver_pins_plus, driver_pins_minus,
                   not_connected, _min_y, _max_y, graph, global_distance,
                   partial_distance, selection, ci, prev_ends>>

\* --------------------------------------------------------- Chip._min_edge
\* delta of inserting node into edge: edge1.dist + edge2.dist - edge.dist.
InsertionDelta(edge, node) ==
    Edge(edge.conn_in, node, 0).dist + Edge(edge.conn_out, node, 0).dist - edge.dist

\* The scan of lines 188-199, from index j on; answer is an index of g.
RECURSIVE MinEdgeScan(_, _, _, _, _, _)
MinEdgeScan(g, node, j, first, minim, answer) ==
    IF j > Len(g) THEN answer
    ELSE LET dist == InsertionDelta(g[j], node)
         IN  IF dist < minim \/ first
             THEN MinEdgeScan(g, node, j + 1, FALSE, dist, j)
             ELSE MinEdgeScan(g, node, j + 1, first, minim, answer)

\* A scan that keeps the last of the edges of smallest delta.
_min_edge_last_tie(g, node) ==
    CHOOSE a \in 1..Len(g) :
        /\ \A j \in 1..Len(g) : InsertionDelta(g[a], node) <= InsertionDelta(g[j], node)
        /\ \A j \in (a + 1)..Len(g) :
              InsertionDelta(g[j], node) > InsertionDelta(g[a], node)

\* The index in g of the edge _min_edge returns for node (g is not empty).
_min_edge(g, node) == MinEdgeScan(g, node, 1, TRUE, 0, 1)

\* ------------------------------------------- Chip.find_paths_slow_version
\* Lines 217-223: one edge per input driver, tagged with its index. A missing
\* output driver raises IndexError at line 219, before the edge is built; a
\* 17th driver pair raises it at line 223 (partial_distance[16]), after the
\* edge was appended and added to the global total. The edges and totals of
\* the earlier iterations stay.
RECURSIVE SlowInitEdges(_, _, _)
SlowInitEdges(st, plus, minus) ==
    LET i == Len(st.graph)
    IN  IF st.raised \/ i >= Len(plus) THEN st
        ELSE IF i >= Len(minus) THEN [st EXCEPT !.raised = TRUE]
        ELSE LET edge == Edge(plus[i + 1], minus[i + 1], i)
                 appended == [st EXCEPT !.graph = Append(@, edge),
                                        !.global_distance = @ + edge.dist]
             IN  IF i >= NumChains THEN [appended EXCEPT !.raised = TRUE]
                 ELSE SlowInitEdges(
                        [appended EXCEPT !.partial_distance[i] = @ + edge.dist],
                        plus, minus)

\* Lines 226-236: the scan over the pool; the result is
\* [old_node |-> index in pool, old_edge |-> index in g].
RECURSIVE SelectScan(_, _, _, _, _, _, _)
SelectScan(g, pool, j, first, minim, old_node, old_edge) ==
    IF j > Len(pool) THEN [old_node |-> old_node, old_edge |-> old_edge]
    ELSE LET deleted_edge == _min_edge(g, pool[j])
         IN  IF first \/ minim > g[deleted_edge].dist
             THEN SelectScan(g, pool, j + 1, FALSE, g[deleted_edge].dist, j, deleted_edge)
             ELSE SelectScan(g, pool, j + 1, first, minim, old_node, old_edge)

Selected(g, pool) == SelectScan(g, pool, 1, TRUE, 0, 0, 0)

\* list.remove(x) of the element at index k
RemoveAt(s, k) == [j \in 1..(Len(s) - 1) |-> IF j < k THEN s[j] ELSE s[j + 1]]

\* edge2 built towards the wrong end of old_edge.
NewEdges_wrong_end(old_edge, old_node) ==
    <<Edge(old_edge.conn_in, old_node, old_edge.i),
      Edge(old_node, old_edge.conn_in, old_edge.i)>>

\* Lines 243-244: the two edges that replace old_edge.
NewEdges(old_edge, old_node) ==
    <<Edge(old_edge.conn_in, old_node, old_edge.i),
      Edge(old_node, old_edge.conn_out, old_edge.i)>>

\* The total without "global_distance -= old_edge.dist".
GlobalAfter_no_subtract(gd, old_edge, edge1, edge2) == gd + edge1.dist + edge2.dist

\* Lines 240-250: the totals after old_edge is replaced by edge1 and edge2.
GlobalAfter(gd, old_edge, edge1, edge2) == gd - old_edge.dist + edge1.dist + edge2.dist

PartialAfter(pd, old_edge, edge1, edge2) ==
    [pd EXCEPT ![old_edge.i] = @ - old_edge.dist + edge1.dist + edge2.dist]

\* The list after not_connected.remove(old_node).
PoolAfter(pool, k) == RemoveAt(pool, k)

\* Lines 214-223.
SlowInit ==
    /\ UNCHANGED valvars
    /\ pc = "start" /\ method = "slow"
    /\ LET st0 == [graph |-> graph, global_distance |-> 0,
                   partial_distance |-> [i \in 0..(NumChains - 1) |-> 0],
                   raised |-> FALSE]
           st == SlowInitEdges(st0, driver_pins_plus, driver_pins_minus)
       IN  /\ graph' = st.graph
           /\ global_distance' = st.global_distance
           /\ partial_distance' = st.partial_distance
           /\ pc' = IF st.raised THEN "crashed" ELSE "slow_loop"
    /\ UNCHANGED <<test, method, driver_pins_plus, driver_pins_minus,
                   not_connected, _min_y, _max_y, selection, ci, ret, prev_ends>>

\* One iteration of "while len(self.not_connected) > 0" (lines 225-250).
\* With an empty graph _min_edge raises IndexError at self.graph[0].
SlowIteration ==
    /\ UNCHANGED valvars
    /\ pc = "slow_loop" /\ Len(not_connected) > 0
    /\ IF Len(graph) = 0
       THEN /\ pc' = "crashed"
            /\ UNCHANGED <<not_connected, graph, global_distance, partial_distance>>
       ELSE LET sel == Selected(graph, not_connected)
                old_node == not_connected[sel.old_node]
                old_edge == graph[sel.old_edge]
                new == NewEdges(old_edge, old_node)
            IN  /\ not_connected' = PoolAfter(not_connected, sel.old_node)
                /\ graph' = RemoveAt(graph, sel.old_edge) \o new
                /\ global_distance' = GlobalAfter(global_distance, old_edge, new[1], new[2])
                /\ partial_distance' = PartialAfter(partial_distance, old_edge, new[1], new[2])
                /\ pc' = "slow_loop"
    /\ UNCHANGED <<test, method, driver_pins_plus, driver_pins_minus,
                   _min_y, _max_y, selection, ci, ret, prev_ends>>

\* Lines 251-252.
SlowReturn ==
    /\ UNCHANGED valvars
    /\ pc = "slow_loop" /\ Len(not_connected) = 0
    /\ ret' = Returned(global_distance, partial_distance)
    /\ pc' = "done"
    /\ UNCHANGED <<test, method, driver_pins_plus, driver_pins_minus,
                   not_connected, _min_y, _max_y, graph, global_distance,
                   partial_distance, selection, ci, prev_ends>>

\* ------------------------------------------------------------- the inputs
\* Input files for the fast builder. Input driver i is named i, output
\* driver i is named 16+i (the validator's convention), free pins from 32.
DriverYIn(order, i) ==
    LET p == (i * (2 * order + 1) + order) % NumChains
    IN  IF order % 2 = 1 THEN p \div 2 ELSE 2 * p

DriverYOut(order, i) == 2 * ((i * (2 * order + 1) + 3 * order) % NumChains) + 1

FastDrivers(order) ==
    [plus |-> [j \in 1..NumChains |-> Pin(j - 1, 0, DriverYIn(order, j - 1))],
     minus |-> [j \in 1..NumChains |->
                    Pin(NumChains + j - 1, MaxX + 1, DriverYOut(order, j - 1))]]

LevelPins(per_level) ==
    [j \in 1..((LastLevel + 1) * per_level) |->
        Pin(2 * NumChains + j, ((j - 1) * 7) % 5, ((j - 1) * 5) % (LastLevel + 1))]

FastTest(order, ex, ey, front, per_level) ==
    LET extra == Pin(2 * NumChains, ex, ey)
        d == FastDrivers(order)
        lp == LevelPins(per_level)
    IN  [plus |-> d.plus, minus |-> d.minus,
         pins |-> IF front THEN <<extra>> \o lp ELSE lp \o <<extra>>]

\* Input files for the slow builder: k driver pairs, input driver j at
\* (0, j mod 2) and every output driver at (MaxCoord, oy), and the free pins
\* at the sites at.
SlowSites == {Pin(0, x, y) : x \in 0..MaxCoord, y \in 0..1}

SlowTest(k, oy, at) ==
    [plus |-> [j \in 1..k |-> Pin(j - 1, 0, (j - 1) % 2)],
     minus |-> [j \in 1..k |-> Pin(NumChains + j - 1, MaxCoord, oy)],
     pins |-> [j \in 1..Len(at) |-> Pin(2 * NumChains + j, at[j].x, at[j].y)]]

InitFast ==
    \E order \in 0..MaxOrder, ex \in 0..MaxX, ey \in (-1)..MaxExtraY, front \in BOOLEAN :
        /\ ChipInit(FastTest(order, ex, ey, front, PinsPerLevel))
        /\ method = "fast"
        /\ prev_ends = None

\* find_paths_slow_version called on the Chip of a small file. (main.py sets
\* method = "fast" on every file; the slow builder is run by a caller that
\* calls the method itself.)
InitSlow ==
    \E k \in 1..MaxK, n \in 0..MaxPins :
      \E oy \in 0..1, at \in [1..n -> SlowSites] :
        /\ ChipInit(SlowTest(k, oy, at))
        /\ method = "slow"
        /\ prev_ends = None

\* The same call on a small file whose last output driver is missing.
SlowTestShort(k, oy, at) ==
    [SlowTest(k, oy, at) EXCEPT !.minus = SubSeq(@, 1, k - 1)]

InitSlowShort ==
    \E k \in 1..MaxK, n \in 0..1 :
      \E oy \in 0..1, at \in [1..n -> SlowSites] :
        /\ ChipInit(SlowTestShort(k, oy, at))
        /\ method = "slow"
        /\ prev_ends = None

\* main.py on a small file: method = "fast" whatever the file holds.
InitMain ==
    \E k \in 1..MaxK, n \in 0..MaxPins :
      \E oy \in 0..1, at \in [1..n -> SlowSites] :
        /\ ChipInit(SlowTest(k, oy, at))
        /\ method = "fast"
        /\ prev_ends = None

Init == InitFast \/ InitSlow \/ InitSlowShort \/ InitMain

Next ==
    \/ FastSetup
    \/ FastChain
    \/ FastReturn
    \/ SlowInit
    \/ SlowIteration
    \/ SlowReturn

Spec == Init /\ [][Next]_vars

\* ------------------------------------------------- reading the edge list
Manhattan(a, b) == Abs(a.x - b.x) + Abs(a.y - b.y)

Names(s) == {s[j].name : j \in 1..Len(s)}

\* The edges of g that leave / enter the pin named n (indices of g).
OutEdges(g, n) == {j \in 1..Len(g) : g[j].conn_in.name = n}
InEdges(g, n) == {j \in 1..Len(g) : g[j].conn_out.name = n}

MinOf(S) == CHOOSE a \in S : \A b \in S : a <= b

\* The pins met from p along the edges of g, at most fuel edges.
RECURSIVE Walk(_, _, _)
Walk(g, p, fuel) ==
    IF fuel = 0 \/ OutEdges(g, p.name) = {} THEN <<p>>
    ELSE <<p>> \o Walk(g, g[MinOf(OutEdges(g, p.name))].conn_out, fuel - 1)

Simple(w) == Cardinality(Names(w)) = Len(w)

\* The edges es are exactly one simple directed path from a to b.
IsPathFromTo(es, a, b) ==
    LET w == Walk(es, a, Len(es))
    IN  /\ Len(w) = Len(es) + 1
        /\ Simple(w)
        /\ w[1].name = a.name /\ w[Len(w)].name = b.name

\* The sum of the Manhattan distances of the edges of es, from the pins.
RECURSIVE SumDist(_, _)
SumDist(es, n) ==
    IF n = 0 THEN 0
    ELSE Manhattan(es[n].conn_in, es[n].conn_out) + SumDist(es, n - 1)

Tagged(g, i) == SelectSeq(g, LAMBDA e : e.i = i)

\* d is an i-th smallest-y pin of the list s (i from 0; ties share ranks).
IsRank(s, d, i) ==
    /\ Cardinality({j \in 1..Len(s) : s[j].y < d.y}) <= i
    /\ i < Cardinality({j \in 1..Len(s) : s[j].y <= d.y})

\* The minimum and maximum y over all free pins of the file.
TrueMinY == MinOf({test.pins[j].y : j \in 1..Len(test.pins)})
TrueMaxY == -MinOf({-test.pins[j].y : j \in 1..Len(test.pins)})

\* boundary[0] = min_y - 1, boundary[i] = min_y + i*(max_y - min_y)/32;
\* pin p is in bucket i iff boundary[i] < p.y <= boundary[i+1] (times 32).
Boundary32(i) ==
    IF i = 0 THEN NumIntervals * (TrueMinY - 1)
    ELSE NumIntervals * TrueMinY + i * (TrueMaxY - TrueMinY)

InBucket(p, i) ==
    /\ Boundary32(i) < NumIntervals * p.y
    /\ NumIntervals * p.y <= Boundary32(i + 1)

\* 16 driver pairs and at least one free pin in each of the 32 y-buckets.
FastPrecondition ==
    /\ Len(test.plus) = NumChains /\ Len(test.minus) = NumChains
    /\ Len(test.pins) > 0
    /\ \A i \in 0..(NumIntervals - 1) :
          \E j \in 1..Len(test.pins) : InBucket(test.pins[j], i)

FastDone == method = "fast" /\ pc = "done"

\* The walks from the input drivers, in file order.
FastWalks == [j \in 1..Len(test.plus) |-> Walk(graph, test.plus[j], Len(graph))]

RECURSIVE SumLen(_, _)
SumLen(ws, n) == IF n = 0 THEN 0 ELSE (Len(ws[n]) - 1) + SumLen(ws, n - 1)

\* The edges form exactly 16 simple directed paths, each from an input
\* driver to an output driver and no two sharing a pin.
SixteenPaths ==
    LET ws == FastWalks
    IN  /\ \A j \in 1..Len(ws) :
              /\ Simple(ws[j])
              /\ ws[j][Len(ws[j])].name \in Names(test.minus)
        /\ \A j1, j2 \in 1..Len(ws) :
              j1 # j2 => Names(ws[j1]) \cap Names(ws[j2]) = {}
        /\ SumLen(ws, Len(ws)) = Len(graph)

\* Each path joins an i-th smallest-y input driver to an i-th smallest-y
\* output driver, for the same i.
RankPairing ==
    LET ws == FastWalks
    IN  \A j \in 1..Len(ws) :
           \E i \in 0..(NumChains - 1) :
              /\ IsRank(test.plus, ws[j][1], i)
              /\ IsRank(test.minus, ws[j][Len(ws[j])], i)

\* Every free pin of the file is the source of exactly one edge and the
\* destination of exactly one edge.
EveryPinOnce ==
    \A j \in 1..Len(test.pins) :
       /\ Cardinality(OutEdges(graph, test.pins[j].name)) = 1
       /\ Cardinality(InEdges(graph, test.pins[j].name)) = 1

\* C1: after the fast builder returns, for 16 driver pairs and a pool with a
\* pin in every one of the 32 y-buckets, the edges are exactly 16 simple
\* directed paths, path i from the i-th smallest-y input driver to the i-th
\* smallest-y output driver, and every free pin is on exactly one path once.
C1_FastPathsCoverEveryPin ==
    (FastDone /\ FastPrecondition) =>
        (SixteenPaths /\ RankPairing /\ EveryPinOnce)

\* ------------------------------------------------------ the slow builder
SlowRunning == method = "slow" /\ pc \in {"slow_loop", "done"}

\* k, the number of driver pairs of the file.
K == Len(test.plus)

\* The pin named n is on the path of chain i.
OnChain(n, i) ==
    n \in Names(Walk(Tagged(graph, i), test.plus[i + 1], Len(graph)))

\* C2: after the initialization and after every insertion of the slow
\* builder, the edges tagged i are one simple directed path from input
\* driver i to output driver i, every inserted free pin is the source of
\* exactly one edge and the destination of exactly one, every driver is in
\* exactly one edge, no pin of the pool is in an edge; at return every free
\* pin of the file is on exactly one of the k paths.
C2_SlowChainsArePaths ==
    SlowRunning =>
        /\ \A i \in 0..(K - 1) :
              IsPathFromTo(Tagged(graph, i), test.plus[i + 1], test.minus[i + 1])
        /\ \A j \in 1..Len(graph) : graph[j].i \in 0..(K - 1)
        /\ \A j \in 1..Len(test.pins) :
              LET n == test.pins[j].name
              IN  IF n \in Names(not_connected)
                  THEN OutEdges(graph, n) = {} /\ InEdges(graph, n) = {}
                  ELSE /\ Cardinality(OutEdges(graph, n)) = 1
                       /\ Cardinality(InEdges(graph, n)) = 1
        /\ \A n \in Names(test.plus) \cup Names(test.minus) :
              Cardinality(OutEdges(graph, n)) + Cardinality(InEdges(graph, n)) = 1
        /\ pc = "done" =>
              \A j \in 1..Len(test.pins) :
                 Cardinality({i \in 0..(K - 1) : OnChain(test.pins[j].name, i)}) = 1

\* Two chains, each of which took a free pin, at return.
C2_Witness ==
    /\ method = "slow" /\ pc = "done" /\ K = 2
    /\ Len(Tagged(graph, 0)) >= 2 /\ Len(Tagged(graph, 1)) >= 2

\* C3: the returned global total is the sum of the Manhattan distances of
\* the edges in the graph (both builders); in the slow builder the running
\* global total and each per-chain partial total equal the sums over the
\* edges (tagged i) after the initialization and after every insertion.
C3_TotalsAreEdgeSums ==
    /\ pc = "done" => ret.global_distance = SumDist(graph, Len(graph))
    /\ SlowRunning =>
          /\ global_distance = SumDist(graph, Len(graph))
          /\ \A i \in 0..(NumChains - 1) :
                partial_distance[i] = SumDist(Tagged(graph, i), Len(Tagged(graph, i)))

\* The slow builder returned after at least two insertions.
C3_Witness ==
    /\ method = "slow" /\ pc = "done"
    /\ Len(graph) >= K + 2 /\ ret.global_distance > 0

\* A step of the slow builder's while loop.
InsertionStep ==
    /\ method = "slow" /\ pc = "slow_loop"
    /\ Len(not_connected') = Len(not_connected) - 1

\* C4: every insertion of the slow builder leaves the global total at least
\* what it was, and the insertion cost of every pool pin into every edge of
\* the graph is >= 0.
C4_SlowTotalNeverDecreases ==
    /\ [][InsertionStep => global_distance' >= global_distance]_vars
    /\ [](SlowRunning =>
            \A j \in 1..Len(graph) : \A m \in 1..Len(not_connected) :
               InsertionDelta(graph[j], not_connected[m]) >= 0)

\* An insertion has made the total strictly larger than the initial one.
C4_Witness ==
    /\ SlowRunning /\ Len(graph) > K
    /\ global_distance >
         SumDist([i \in 1..K |-> Edge(test.plus[i], test.minus[i], 0)], K)

\* The smallest insertion cost of pin p over the edges of g.
MinDelta(g, p) == MinOf({InsertionDelta(g[j], p) : j \in 1..Len(g)})

\* The first pin of the pool whose smallest insertion cost is the smallest.
BestPin(g, pool) ==
    MinOf({m \in 1..Len(pool) :
             \A m2 \in 1..Len(pool) : MinDelta(g, pool[m]) <= MinDelta(g, pool[m2])})

\* C5: in every iteration of the slow builder the inserted pin is the first
\* pin of the pool, in pool order, whose minimum insertion delta over the
\* edges of the graph is the smallest among the remaining pins.
C5_InsertsCheapestPin ==
    [][(method = "slow" /\ pc = "slow_loop" /\ Len(not_connected) > 0
          /\ Len(graph) > 0)
        => not_connected' = RemoveAt(not_connected, BestPin(graph, not_connected))
      ]_vars

\* C6: the pool of free pins is empty when a builder returns (slow or fast).
C6_PoolEmptyAtReturn == pc = "done" => Len(not_connected) = 0

\* The per-chain totals of the k chains, from the edges.
ChainTotals == [i \in 0..(K - 1) |-> SumDist(Tagged(graph, i), Len(Tagged(graph, i)))]

\* C8: for k >= 2 driver pairs the slow builder's mean is the global total
\* divided by k, and its standard deviation sums the squared deviations of
\* the k chain totals and divides by k-1.
C8_StatisticsOverKChains ==
    (method = "slow" /\ pc = "done" /\ K >= 2) =>
        /\ ret.mean.num * K = ret.global_distance * ret.mean.den
        /\ ret.standard_dev.sqrt_num * (K * K * (K - 1)) =
             SumSqDev(ChainTotals, K, K, SumTo(ChainTotals, K))
               * ret.standard_dev.sqrt_den

\* ----------------------------------- both builders on the same input file
\* The (input driver, output driver) names at the two ends of each chain.
ChainEnds(g) ==
    {<<w[1].name, w[Len(w)].name>> :
        w \in {Walk(g, test.plus[j], Len(g)) : j \in 1..Len(test.plus)}}

\* A caller that compares the two builders on one file: after the fast
\* builder returned it keeps the chain ends, builds a new Chip from the same
\* file (Chip.__init__) and runs the slow builder on it. (main.py itself
\* builds one Chip and runs the fast builder only.)
Rebuild ==
    /\ UNCHANGED valvars
    /\ pc = "done" /\ method = "fast" /\ prev_ends = None
    /\ prev_ends' = [ends |-> ChainEnds(graph)]
    /\ method' = "slow"
    /\ driver_pins_plus' = test.plus
    /\ driver_pins_minus' = test.minus
    /\ not_connected' = test.pins
    /\ _min_y' = ReadMinY(test.pins, 1, -1)
    /\ _max_y' = ReadMaxY(test.pins, 1, -1)
    /\ graph' = <<>>
    /\ global_distance' = 0
    /\ partial_distance' = [i \in 0..(NumChains - 1) |-> 0]
    /\ selection' = [i \in 0..(NumIntervals - 1) |-> <<>>]
    /\ ci' = 0
    /\ ret' = None
    /\ pc' = "start"
    /\ UNCHANGED test

\* Files with a pin in every bucket, drivers in each of the file orders.
InitBoth ==
    \E order \in 0..MaxOrder, front \in BOOLEAN :
        /\ ChipInit(FastTest(order, MaxX, LastLevel \div 2, front, 1))
        /\ method = "fast"
        /\ prev_ends = None

NextBoth ==
    \/ FastSetup
    \/ FastChain
    \/ FastReturn
    \/ Rebuild
    \/ SlowInit
    \/ SlowIteration
    \/ SlowReturn

SpecBoth == InitBoth /\ [][NextBoth]_vars

\* C7: on the same input file, with a pin in every bucket, the set of
\* (input driver, output driver) chain ends of the slow builder equals the
\* set of the fast builder, whatever the order of the drivers in the file.
C7_SameChainEnds ==
    (method = "slow" /\ pc = "done" /\ prev_ends # None /\ FastPrecondition) =>
        ChainEnds(graph) = prev_ends.ends

\* ------------------------------------------ solution_metrics.extract_chains
\* A pin name: DRIVERPIN_<n>, or the name of a pin to route.
DriverName(n) == [driver |-> TRUE, n |-> n]
FreeName(n) == [driver |-> FALSE, n |-> n]

\* Pin = namedtuple("Pin", ["name", "loc", "visited"]); extract_pins builds
\* every pin with visited = False and a namedtuple is immutable.
pins_index(name) == [name |-> name, visited |-> FALSE]

pin_is_input_driver(name) == name.driver /\ name.n <= LastInputIndex
pin_is_output_driver(name) == name.driver /\ name.n > LastInputIndex

InputNames == {DriverName(n) : n \in 0..(NumInV - 1)}
OutputNames == {DriverName(LastInputIndex + n) : n \in 1..NumOutV}
FreeNames == {FreeName(n) : n \in 1..NumFreeV}

AllNames == InputNames \cup OutputNames \cup FreeNames

\* links.keys(): the keys of the dict, in insertion order.
LinkKeys(lk) == [j \in 1..Len(lk) |-> lk[j].conn_in]

\* "k in links" and links[k].
HasKey(lk, k) == \E j \in 1..Len(lk) : lk[j].conn_in = k
LinkOf(lk, k) == lk[CHOOSE j \in 1..Len(lk) : lk[j].conn_in = k].conn_out

\* Lines 139-140.
InputKeys(lk) == SelectSeq(LinkKeys(lk), pin_is_input_driver)
OutputKeys(lk) == SelectSeq(LinkKeys(lk), pin_is_output_driver)

\* Lines 138-151: the driver checks. "if not len(inputs) != len(outputs)"
\* raises when the two counts are equal; the message of the second check
\* evaluates len(input), the builtin, which raises TypeError.
DriverCheck(ins, outs) ==
    IF ~(Len(ins) # Len(outs)) THEN "ValueError: same number"
    ELSE IF ~(MinDrivers <= Len(ins) /\ Len(ins) <= MaxDrivers)
         THEN "TypeError: len(input)"
    ELSE IF Len(ins) # Cardinality({ins[j] : j \in 1..Len(ins)})
            \/ Len(outs) # Cardinality({outs[j] : j \in 1..Len(outs)})
         THEN "ValueError: used once"
    ELSE "none"

\* Lines 136-157: the checks, then the first chain is started.
ExtractStart ==
    /\ v_pc = "start"
    /\ LET ins == InputKeys(links)
           outs == OutputKeys(links)
           err == DriverCheck(ins, outs)
       IN  /\ inputs' = ins
           /\ outputs' = outs
           /\ v_error' = err
           /\ chains' = <<>>
           /\ IF err # "none"
              THEN /\ v_pc' = "raised"
                   /\ UNCHANGED <<chain, next_pin, v_i>>
              ELSE /\ v_pc' = "walk"
                   /\ v_i' = 1
                   /\ chain' = <<pins_index(ins[1])>>
                   /\ next_pin' = pins_index(ins[1])
    /\ UNCHANGED <<links, chipvars>>

\* One iteration of "while not pin_is_output_driver(next_pin)" (159-163).
\* links[...] of a pin that is no key raises KeyError.
WalkStep ==
    /\ v_pc = "walk"
    /\ ~pin_is_output_driver(next_pin.name)
    /\ Len(chain) < MaxChainLen
    /\ IF ~HasKey(links, next_pin.name)
       THEN /\ v_pc' = "raised" /\ v_error' = "KeyError"
            /\ UNCHANGED <<chain, next_pin>>
       ELSE LET np == pins_index(LinkOf(links, next_pin.name))
            IN  /\ next_pin' = np
                /\ IF np.visited
                   THEN /\ v_pc' = "raised" /\ v_error' = "Exception: loop"
                        /\ UNCHANGED chain
                   ELSE /\ chain' = Append(chain, np)
                        /\ UNCHANGED <<v_pc, v_error>>
    /\ UNCHANGED <<links, inputs, outputs, chains, v_i, chipvars>>

\* The while loop ends at an output driver: line 165, then the next input
\* of the for loop, or "return chains".
ChainDone ==
    /\ v_pc = "walk"
    /\ pin_is_output_driver(next_pin.name)
    /\ chains' = Append(chains, chain)
    /\ IF v_i < Len(inputs)
       THEN /\ v_i' = v_i + 1
            /\ chain' = <<pins_index(inputs[v_i + 1])>>
            /\ next_pin' = pins_index(inputs[v_i + 1])
            /\ UNCHANGED v_pc
       ELSE /\ v_pc' = "returned"
            /\ UNCHANGED <<v_i, chain, next_pin>>
    /\ UNCHANGED <<links, v_error, inputs, outputs, chipvars>>

\* No Chip is involved when the validator runs.
EmptyTest == [plus |-> <<>>, minus |-> <<>>, pins |-> <<>>]

ChipAbsent ==
    /\ test = EmptyTest /\ method = "none" /\ pc = "none"
    /\ driver_pins_plus = <<>> /\ driver_pins_minus = <<>> /\ not_connected = <<>>
    /\ _min_y = -1 /\ _max_y = -1 /\ graph = <<>>
    /\ global_distance = 0
    /\ partial_distance = [i \in 0..(NumChains - 1) |-> 0]
    /\ selection = [i \in 0..(NumIntervals - 1) |-> <<>>]
    /\ ci = 0 /\ ret = None /\ prev_ends = None

\* The validator is given the dict extract_links built from an output file:
\* distinct keys in the order of the file, each linked to any pin of the
\* input file.
InitValidator ==
    /\ ChipAbsent
    /\ \E n \in 0..MaxLinks :
          \E ks \in [1..n -> AllNames], ts \in [1..n -> AllNames] :
             /\ \A a, b \in 1..n : ks[a] = ks[b] => a = b
             /\ links = [j \in 1..n |-> [conn_in |-> ks[j], conn_out |-> ts[j]]]
    /\ v_pc = "start" /\ v_error = "none"
    /\ inputs = <<>> /\ outputs = <<>> /\ chains = <<>> /\ chain = <<>>
    /\ next_pin = None /\ v_i = 0

NextValidator ==
    \/ ExtractStart
    \/ WalkStep
    \/ ChainDone

SpecValidator == InitValidator /\ [][NextValidator]_vars

\* The free pins of the current chain, in the order they were reached.
FreePinsOf(c) == SelectSeq(c, LAMBDA q : ~q.name.driver)

\* C9: while a chain is followed, reaching a free pin that was already
\* visited is a failure: the walk never goes on with a free pin twice in the
\* chain (in particular it does not follow a cycle of free pins).
C9_RevisitFails ==
    v_pc \in {"walk", "returned"} => Simple(FreePinsOf(chain))

\* C10: the driver checks fail exactly when the number of input drivers used
\* as link sources differs from the number of output drivers used as link
\* sources, or the number of input drivers is outside 2..16.
C10_DriverCountCheck ==
    v_pc \in {"walk", "returned", "raised"} =>
        LET n_in == Len(SelectSeq(LinkKeys(links), pin_is_input_driver))
            n_out == Len(SelectSeq(LinkKeys(links), pin_is_output_driver))
            failed == v_error \in {"ValueError: same number",
                                   "TypeError: len(input)", "ValueError: used once"}
        IN  failed <=> (n_in # n_out \/ ~(MinDrivers <= n_in /\ n_in <= MaxDrivers))

\* ------------------------------------------------ the best-edge scan
\* C11: for every pin of the pool and the (non-empty) graph of the slow
\* builder, the edge _min_edge returns has the smallest insertion delta of
\* all edges of the graph, and is the first edge of the graph with that
\* delta.
C11_MinEdgeIsFirstMinimum ==
    (SlowRunning /\ Len(graph) > 0) =>
        \A m \in 1..Len(not_connected) :
            LET p == not_connected[m]
                a == _min_edge(graph, p)
            IN  /\ a \in 1..Len(graph)
                /\ \A j \in 1..Len(graph) :
                      InsertionDelta(graph[a], p) <= InsertionDelta(graph[j], p)
                /\ \A j \in 1..(a - 1) :
                      InsertionDelta(graph[j], p) > InsertionDelta(graph[a], p)

\* A pool pin whose best edge is not the first edge of the graph and is tied
\* with a later edge.
C11_Witness ==
    /\ method = "slow" /\ pc = "slow_loop" /\ Len(graph) > 0
    /\ \E m \in 1..Len(not_connected) :
          LET p == not_connected[m]
              a == _min_edge(graph, p)
          IN  /\ a > 1
              /\ \E j \in (a + 1)..Len(graph) :
                    InsertionDelta(graph[j], p) = InsertionDelta(graph[a], p)

\* ------------------------------------------------ the bucket partition
\* The fast builder has assigned the free pins to its intervals.
FastAssigned ==
    /\ method = "fast" /\ pc \in {"fast_chains", "crashed", "done"}
    /\ Len(test.pins) > 0

\* The intervals of the fast builder that hold the pin named n.
BucketsOf(n) ==
    {i \in 0..(NumIntervals - 1) :
        \E m \in 1..Len(selection[i]) : selection[i][m].name = n}

\* The bucket rule for extremes mn and mx: boundary[i] < y <= boundary[i+1],
\* with boundary[0] = mn - 1 and boundary[i] = mn + i*(mx - mn)/32 (times 32).
BucketRule(y, i, mn, mx) ==
    LET lo == IF i = 0 THEN NumIntervals * (mn - 1)
              ELSE NumIntervals * mn + i * (mx - mn)
        hi == NumIntervals * mn + (i + 1) * (mx - mn)
    IN  lo < NumIntervals * y /\ NumIntervals * y <= hi

\* C12: with min_y and max_y the smallest and largest y of the free pins,
\* every free pin is in exactly one interval of the fast builder, the
\* bucket i with boundary[i] < y <= boundary[i+1]; a pin with y = min_y is
\* in bucket 0.
C12_BucketPartition ==
    FastAssigned =>
        LET mn == TrueMinY
            mx == TrueMaxY
        IN  \A j \in 1..Len(test.pins) :
              LET p == test.pins[j]
                  got == BucketsOf(p.name)
              IN  /\ got = {i \in 0..(NumIntervals - 1) : BucketRule(p.y, i, mn, mx)}
                  /\ Cardinality(got) = 1
                  /\ \A i \in got :
                        Cardinality({m \in 1..Len(selection[i]) :
                                       selection[i][m].name = p.name}) = 1
                  /\ p.y = mn => got = {0}

\* The partition holds whenever _read left the true extremes in _min_y and
\* _max_y.
C12_HoldsWithTrueExtremes ==
    (FastAssigned /\ _min_y = TrueMinY /\ _max_y = TrueMaxY) => C12_BucketPartition

\* ------------------------------------------------ the edge chain tag
\* An iteration of the fast builder's "for i in range(16)" that adds edges.
FastChainStep ==
    /\ method = "fast" /\ pc = "fast_chains"
    /\ Len(graph') > Len(graph)

\* The edges a step appended to the graph.
AddedEdges == {graph'[j] : j \in (Len(graph) + 1)..Len(graph')}

\* In the slow builder the two edges that replace a removed edge carry the
\* removed edge's index, and every edge's index is one of 0..k-1.
C13_SlowEdgesCarryChainIndex ==
    /\ [][InsertionStep =>
            LET old_edge == graph[Selected(graph, not_connected).old_edge]
            IN  /\ Len(graph') = Len(graph) + 1
                /\ graph'[Len(graph') - 1].i = old_edge.i
                /\ graph'[Len(graph')].i = old_edge.i]_vars
    /\ [](SlowRunning => \A j \in 1..Len(graph) : graph[j].i \in 0..(K - 1))

\* C13: every edge carries the index 0..k-1 of its chain: the two edges the
\* slow builder puts in place of a removed edge carry that edge's index, and
\* every edge the fast builder adds while building chain i carries i.
C13_EdgesCarryChainIndex ==
    /\ C13_SlowEdgesCarryChainIndex
    /\ [][FastChainStep => \A e \in AddedEdges : e.i = ci]_vars

====
